---- MODULE Spec2Model ----
(***************************************************************************)
(* State-machine model of the point-of-sale pricing and transaction core   *)
(* of oop-sistem-kasir: ShoppingCart (models/cart.py), the discount and    *)
(* tax strategies (services/discount_service.py, services/tax_service.py), *)
(* PaymentProcessor / TransactionOrchestrator / TransactionService         *)
(* (services/transaction_service.py) and Transaction / TransactionBuilder  *)
(* (models/transaction.py).                                                *)
(*                                                                         *)
(* Conventions.                                                            *)
(*  - Python's int(x * rate) on a non-negative int x and a rate written    *)
(*    with two decimals is modelled as (x * pct) \div 100 with pct the     *)
(*    rate in percent.  The two agree for every rate of the program        *)
(*    (0.05 0.07 0.08 0.10 0.12 0.15 0.20 0.25) and every x in             *)
(*    0..3000000 (checked exhaustively against the float computation).     *)
(*    The percentage / rate fields therefore hold integer percents.        *)
(*  - Return values are strings: "True", "False", "None", the name of the  *)
(*    raised exception ("ValueError"), or "Transaction".                   *)
(*  - A Python dict is a sequence of entries in insertion order.           *)
(***************************************************************************)
EXTENDS Integers, Sequences, FiniteSets, TLC

VARIABLES
    items,                \* ShoppingCart._items, in insertion order
    is_finalized,         \* ShoppingCart._is_finalized
    customer,             \* ShoppingCart._customer
    tax_mode,             \* TaxService._tax_mode
    today,                \* datetime.now().weekday(), 0 = Monday
    transaction_history,  \* TransactionService._transaction_history (the Transaction objects)
    transactions,         \* TransactionService._transactions: id -> index of the object
    built,                \* the Transaction as returned by the latest TransactionBuilder.build()
    totals,               \* the latest call of calculate_transaction_totals made by the checkout preview
    calls,                \* the create_transaction calls in progress, one per terminal (thread)
    result                \* operation last called and what it returned or raised

vars == <<items, is_finalized, customer, tax_mode, today,
          transaction_history, transactions, built, totals, calls, result>>

cartVars == <<items, is_finalized, customer>>
ledgerVars == <<transaction_history, transactions, built>>

(***************************************************************************)
(* Bounds of the model                                                     *)
(***************************************************************************)
MaxQty == 3
MaxTxn == 2

(***************************************************************************)
(* Generic helpers                                                         *)
(***************************************************************************)
RECURSIVE SumSeq(_)
SumSeq(s) == IF s = <<>> THEN 0 ELSE Head(s) + SumSeq(Tail(s))

Max(a, b) == IF a >= b THEN a ELSE b

\* int(x * pct/100) for x >= 0
IntPercent(x, pct) == (x * pct) \div 100

Amounts(s) == [i \in 1..Len(s) |-> s[i].amount]

(***************************************************************************)
(* models/product.py                                                       *)
(***************************************************************************)
MAKANAN == "makanan"
MINUMAN == "minuman"
KEBUTUHAN == "kebutuhan"
KategoriBarang == {MAKANAN, MINUMAN, KEBUTUHAN}

\* str.strip().lower() on the names used as inputs
Normalize(raw) ==
    CASE raw \in {"beras", " Beras "} -> "beras"
      [] raw \in {"sabun", "SABUN"} -> "sabun"
      [] OTHER -> ""

\* ProductItem(Product(nama, harga, satuan, kategori), jumlah):
\* the constructors validate name, price and quantity
NewProductItem(raw, harga, kategori, jumlah) ==
    IF Normalize(raw) = "" \/ harga <= 0 \/ jumlah <= 0
    THEN [ok |-> FALSE]
    ELSE [ok |-> TRUE,
          item |-> [nama |-> Normalize(raw), harga |-> harga,
                    kategori |-> kategori, jumlah |-> jumlah]]

\* mutant: the quantity is ignored
get_total_price_unit(item) == item.harga

get_total_price(item) == item.harga * item.jumlah

(***************************************************************************)
(* models/cart.py : ShoppingCart                                           *)
(***************************************************************************)
HasKey(its, key) == \E i \in 1..Len(its) : its[i].nama = key

IndexOf(its, key) == CHOOSE i \in 1..Len(its) : its[i].nama = key

is_empty(its) == Len(its) = 0

calculate_subtotal(its) ==
    SumSeq([i \in 1..Len(its) |-> get_total_price(its[i])])

total_quantity(its) == SumSeq([i \in 1..Len(its) |-> its[i].jumlah])

\* mutant: a merge takes the added item's price and category
add_item_overwrite(its, fin, item) ==
    IF fin THEN [ret |-> "False", items |-> its]
    ELSE IF HasKey(its, item.nama)
    THEN [ret |-> "True",
          items |-> [its EXCEPT ![IndexOf(its, item.nama)] =
                        [item EXCEPT !.jumlah = @ + its[IndexOf(its, item.nama)].jumlah]]]
    ELSE [ret |-> "True", items |-> Append(its, item)]

add_item(its, fin, item) ==
    IF fin THEN [ret |-> "False", items |-> its]
    ELSE IF HasKey(its, item.nama)
    THEN [ret |-> "True",
          items |-> [its EXCEPT ![IndexOf(its, item.nama)].jumlah = @ + item.jumlah]]
    ELSE [ret |-> "True", items |-> Append(its, item)]

\* add_item called with something that is not a ProductItem
add_item_invalid(its, fin) ==
    IF fin THEN [ret |-> "False", items |-> its]
    ELSE [ret |-> "ValueError", items |-> its]

remove_item(its, fin, raw) ==
    IF fin THEN [ret |-> "False", items |-> its]
    ELSE IF HasKey(its, Normalize(raw))
    THEN [ret |-> "True",
          items |-> SelectSeq(its, LAMBDA it : it.nama # Normalize(raw))]
    ELSE [ret |-> "False", items |-> its]

\* mutant: the new quantity is not checked
update_quantity_unchecked(its, fin, raw, new_quantity) ==
    IF fin THEN [ret |-> "False", items |-> its]
    ELSE IF HasKey(its, Normalize(raw))
    THEN [ret |-> "True",
          items |-> [its EXCEPT ![IndexOf(its, Normalize(raw))].jumlah = new_quantity]]
    ELSE [ret |-> "False", items |-> its]

update_quantity(its, fin, raw, new_quantity) ==
    IF fin THEN [ret |-> "False", items |-> its]
    ELSE IF new_quantity <= 0 THEN [ret |-> "ValueError", items |-> its]
    ELSE IF HasKey(its, Normalize(raw))
    THEN [ret |-> "True",
          items |-> [its EXCEPT ![IndexOf(its, Normalize(raw))].jumlah = new_quantity]]
    ELSE [ret |-> "False", items |-> its]

\* mutant: the finalized check is missing
clear_cart_unguarded(its, fin) == [ret |-> "True", items |-> <<>>]

clear_cart(its, fin) ==
    IF fin THEN [ret |-> "False", items |-> its]
    ELSE [ret |-> "True", items |-> <<>>]

\* categories in order of first appearance (defaultdict filled while iterating)
RECURSIVE CategoryOrder(_)
CategoryOrder(its) ==
    IF its = <<>> THEN <<>>
    ELSE LET rest == CategoryOrder(SubSeq(its, 1, Len(its) - 1))
             k == its[Len(its)].kategori
         IN IF \E i \in 1..Len(rest) : rest[i] = k THEN rest ELSE Append(rest, k)

get_items_by_category(its) ==
    [i \in 1..Len(CategoryOrder(its)) |->
        [kategori |-> CategoryOrder(its)[i],
         items |-> SelectSeq(its, LAMBDA it : it.kategori = CategoryOrder(its)[i])]]

get_category_totals(its) ==
    [i \in 1..Len(CategoryOrder(its)) |->
        LET sel == SelectSeq(its, LAMBDA it : it.kategori = CategoryOrder(its)[i])
        IN [kategori |-> CategoryOrder(its)[i],
            quantity |-> total_quantity(sel),
            amount |-> calculate_subtotal(sel)]]


(***************************************************************************)
(* models/customer.py                                                      *)
(***************************************************************************)
\* ShoppingCart(None): a cart without a customer
NoCustomer == [kind |-> "None", umur |-> 0, is_member |-> FALSE, membership_points |-> 0]

NewCustomer(umur, is_member) ==
    [kind |-> "Customer", umur |-> umur, is_member |-> is_member, membership_points |-> 0]

NewPremiumCustomer(umur, points) ==
    [kind |-> "PremiumCustomer", umur |-> umur, is_member |-> TRUE,
     membership_points |-> Max(0, points)]

NewVIPCustomer(umur, points) ==
    [kind |-> "VIPCustomer", umur |-> umur, is_member |-> TRUE,
     membership_points |-> Max(0, points)]

\* mutant: a tier starts one point above its minimum
calculate_tier_above(points) ==
    IF points > 10000 THEN "Platinum"
    ELSE IF points > 5000 THEN "Gold"
    ELSE IF points > 1000 THEN "Silver"
    ELSE "Bronze"

\* PremiumCustomer._calculate_tier
calculate_tier(points) ==
    IF points >= 10000 THEN "Platinum"
    ELSE IF points >= 5000 THEN "Gold"
    ELSE IF points >= 1000 THEN "Silver"
    ELSE "Bronze"

\* PremiumCustomer.get_discount_multiplier, in percent
get_discount_multiplier(c) ==
    CASE calculate_tier(c.membership_points) = "Bronze" -> 7
      [] calculate_tier(c.membership_points) = "Silver" -> 10
      [] calculate_tier(c.membership_points) = "Gold" -> 15
      [] calculate_tier(c.membership_points) = "Platinum" -> 20

(***************************************************************************)
(* services/discount_service.py                                            *)
(***************************************************************************)
DiscountDetail(name, amount, percentage) ==
    [name |-> name, amount |-> amount, percentage |-> percentage]

SeniorPercentage == 10
SeniorMinAge == 60

Senior_is_applicable(c) == c.kind # "None" /\ c.umur >= SeniorMinAge

Senior_calculate_discount(its, c) ==
    IF ~Senior_is_applicable(c) THEN DiscountDetail("Diskon Lansia", 0, 0)
    ELSE DiscountDetail("Diskon Lansia",
                        IntPercent(calculate_subtotal(its), SeniorPercentage),
                        SeniorPercentage)

Member_is_applicable(c) == c.kind # "None" /\ c.is_member

MemberPercentage(c) ==
    IF c.kind = "VIPCustomer" THEN 25
    ELSE IF c.kind = "PremiumCustomer" THEN get_discount_multiplier(c)
    ELSE 5

\* f"Diskon Member {tier}"
MemberDiscountName(c) ==
    IF c.kind = "VIPCustomer" THEN "Diskon Member VIP"
    ELSE IF c.kind = "PremiumCustomer"
    THEN CASE calculate_tier(c.membership_points) = "Bronze" -> "Diskon Member Bronze"
           [] calculate_tier(c.membership_points) = "Silver" -> "Diskon Member Silver"
           [] calculate_tier(c.membership_points) = "Gold" -> "Diskon Member Gold"
           [] calculate_tier(c.membership_points) = "Platinum" -> "Diskon Member Platinum"
    ELSE "Diskon Member Regular"

Member_calculate_discount(its, c) ==
    IF ~Member_is_applicable(c) THEN DiscountDetail("Diskon Member", 0, 0)
    ELSE DiscountDetail(MemberDiscountName(c),
                        IntPercent(calculate_subtotal(its), MemberPercentage(c)),
                        MemberPercentage(c))

\* CategoryDiscountStrategy._category_rules, in dict order
CategoryRules ==
    << [kategori |-> MAKANAN, min_items |-> 3, percentage |-> 7],
       [kategori |-> MINUMAN, min_items |-> 3, percentage |-> 7],
       [kategori |-> KEBUTUHAN, min_items |-> 2, percentage |-> 7] >>

CategoryDiscountName(k) ==
    CASE k = MAKANAN -> "Diskon Kategori Makanan"
      [] k = MINUMAN -> "Diskon Kategori Minuman"
      [] k = KEBUTUHAN -> "Diskon Kategori Kebutuhan"

\* category_totals[category] for a category that is in the cart
CategoryData(its, k) ==
    LET ct == get_category_totals(its)
    IN ct[CHOOSE i \in 1..Len(ct) : ct[i].kategori = k]

InCategoryTotals(its, k) ==
    \E i \in 1..Len(its) : its[i].kategori = k

\* mutant: the threshold itself does not qualify
CategoryQualifies_above(its, rule) ==
    /\ InCategoryTotals(its, rule.kategori)
    /\ CategoryData(its, rule.kategori).quantity > rule.min_items

CategoryQualifies(its, rule) ==
    /\ InCategoryTotals(its, rule.kategori)
    /\ CategoryData(its, rule.kategori).quantity >= rule.min_items

Category_is_applicable(its) ==
    \E r \in 1..Len(CategoryRules) : CategoryQualifies(its, CategoryRules[r])

RECURSIVE CategoryDiscountsUpTo(_, _)
CategoryDiscountsUpTo(its, n) ==
    IF n = 0 THEN <<>>
    ELSE LET rule == CategoryRules[n]
             before == CategoryDiscountsUpTo(its, n - 1)
         IN IF CategoryQualifies(its, rule)
            THEN Append(before,
                        DiscountDetail(CategoryDiscountName(rule.kategori),
                                       IntPercent(CategoryData(its, rule.kategori).amount,
                                                  rule.percentage),
                                       rule.percentage))
            ELSE before

Category_calculate_discount(its) == CategoryDiscountsUpTo(its, Len(CategoryRules))

\* DayOfWeekDiscountStrategy._day_discounts
DayDiscountDays == {0, 5}

\* mutant: the day discounts are three times as large
DayPercentage_tripled(day) == IF day = 0 THEN 45 ELSE 60

DayPercentage(day) == IF day = 0 THEN 15 ELSE 20

DayDiscountName(day) == IF day = 0 THEN "Diskon Hari Senin" ELSE "Diskon Hari Sabtu"

DayOfWeek_is_applicable(day) == day \in DayDiscountDays

DayOfWeek_calculate_discount(its, day) ==
    IF ~DayOfWeek_is_applicable(day) THEN DiscountDetail("Diskon Hari", 0, 0)
    ELSE DiscountDetail(DayDiscountName(day),
                        IntPercent(calculate_subtotal(its), DayPercentage(day)),
                        DayPercentage(day))

\* DiscountService.calculate_all_discounts with the default strategies
\* [Senior, Member, DayOfWeek] and the separate category strategy
calculate_all_discounts(its, c, day) ==
    LET strategies ==
            << [applicable |-> Senior_is_applicable(c),
                discount |-> Senior_calculate_discount(its, c)],
               [applicable |-> Member_is_applicable(c),
                discount |-> Member_calculate_discount(its, c)],
               [applicable |-> DayOfWeek_is_applicable(day),
                discount |-> DayOfWeek_calculate_discount(its, day)] >>
        kept == SelectSeq(strategies, LAMBDA s : s.applicable /\ s.discount.amount > 0)
        all_discounts == [i \in 1..Len(kept) |-> kept[i].discount]
    IN IF Category_is_applicable(its)
       THEN all_discounts \o Category_calculate_discount(its)
       ELSE all_discounts

\* DiscountDetail.__post_init__: TRUE iff nothing is raised (percent scale)
DiscountDetail_valid(amount, percentage) ==
    amount >= 0 /\ percentage >= 0 /\ percentage <= 100

\* SeniorDiscountStrategy(percentage).calculate_discount: the constructor
\* stores any percentage, the DiscountDetail it builds raises ValueError
Senior_calculate_discount_with(percentage, its, c) ==
    IF ~Senior_is_applicable(c)
    THEN [raised |-> FALSE, discount |-> DiscountDetail("Diskon Lansia", 0, 0)]
    ELSE IF ~DiscountDetail_valid(IntPercent(calculate_subtotal(its), percentage), percentage)
    THEN [raised |-> TRUE]
    ELSE [raised |-> FALSE,
          discount |-> DiscountDetail("Diskon Lansia",
                                      IntPercent(calculate_subtotal(its), percentage),
                                      percentage)]

\* DiscountService([SeniorDiscountStrategy(percentage), MemberDiscountStrategy(),
\* DayOfWeekDiscountStrategy()]).calculate_all_discounts: the loop has no
\* exception handling, what a strategy raises leaves the method
calculate_all_discounts_with(percentage, its, c, day) ==
    IF Senior_is_applicable(c) /\ Senior_calculate_discount_with(percentage, its, c).raised
    THEN [raised |-> TRUE, discounts |-> <<>>]
    ELSE [raised |-> FALSE,
          discounts |->
              LET strategies ==
                      << [applicable |-> Senior_is_applicable(c),
                          discount |->
                              Senior_calculate_discount_with(percentage, its, c).discount],
                         [applicable |-> Member_is_applicable(c),
                          discount |-> Member_calculate_discount(its, c)],
                         [applicable |-> DayOfWeek_is_applicable(day),
                          discount |-> DayOfWeek_calculate_discount(its, day)] >>
                  kept == SelectSeq(strategies,
                                    LAMBDA s : s.applicable /\ s.discount.amount > 0)
                  all_discounts == [i \in 1..Len(kept) |-> kept[i].discount]
              IN IF Category_is_applicable(its)
                 THEN all_discounts \o Category_calculate_discount(its)
                 ELSE all_discounts]

(***************************************************************************)
(* services/tax_service.py                                                 *)
(***************************************************************************)
TaxDetail(name, rate, amount, taxable_amount) ==
    [name |-> name, rate |-> rate, amount |-> amount, taxable_amount |-> taxable_amount]

StandardTaxRate == 10
StandardThreshold == 100000

\* mutant: the threshold itself is taxed
StandardTax_is_applicable_at(sad) == sad >= StandardThreshold

StandardTax_is_applicable(sad) == sad > StandardThreshold

StandardTax_calculate_tax(sad) ==
    IF ~StandardTax_is_applicable(sad) THEN TaxDetail("PPN", 0, 0, 0)
    ELSE TaxDetail("PPN", StandardTaxRate, IntPercent(sad, StandardTaxRate), sad)

CategoryTaxRate(k) ==
    CASE k = MAKANAN -> 5
      [] k = MINUMAN -> 8
      [] k = KEBUTUHAN -> 12

CategoryTaxName(k) ==
    CASE k = MAKANAN -> "Pajak Makanan"
      [] k = MINUMAN -> "Pajak Minuman"
      [] k = KEBUTUHAN -> "Pajak Kebutuhan"

CategoryTaxThreshold == 50000

CategoryTax_is_applicable(sad) == sad > CategoryTaxThreshold

CategoryTax_calculate_tax(sad, its) ==
    IF ~CategoryTax_is_applicable(sad) THEN <<>>
    ELSE LET groups == get_items_by_category(its)
         IN [i \in 1..Len(groups) |->
                LET category_total == calculate_subtotal(groups[i].items)
                IN TaxDetail(CategoryTaxName(groups[i].kategori),
                             CategoryTaxRate(groups[i].kategori),
                             IntPercent(category_total, CategoryTaxRate(groups[i].kategori)),
                             category_total)]

\* LuxuryTaxStrategy._tax_brackets
TaxBrackets ==
    << [min_amount |-> 500000, rate |-> 5, name |-> "Luxury Tier 1"],
       [min_amount |-> 1000000, rate |-> 8, name |-> "Luxury Tier 2"],
       [min_amount |-> 2000000, rate |-> 12, name |-> "Luxury Tier 3"] >>

LuxuryTax_is_applicable(sad) == sad >= TaxBrackets[1].min_amount

\* mutant: the lowest qualifying bracket is taken
ApplicableTier_lowest(sad) ==
    LET qualifying == {i \in 1..Len(TaxBrackets) : sad >= TaxBrackets[i].min_amount}
    IN CHOOSE i \in qualifying : \A j \in qualifying : i <= j

\* for tier in reversed(brackets): first one with sad >= min_amount
ApplicableTier(sad) ==
    LET qualifying == {i \in 1..Len(TaxBrackets) : sad >= TaxBrackets[i].min_amount}
    IN CHOOSE i \in qualifying : \A j \in qualifying : j <= i

LuxuryTax_calculate_tax(sad) ==
    IF ~LuxuryTax_is_applicable(sad) THEN TaxDetail("Luxury Tax", 0, 0, 0)
    ELSE LET tier == TaxBrackets[ApplicableTier(sad)]
         IN TaxDetail(tier.name, tier.rate, IntPercent(sad, tier.rate), sad)

ValidModes == {"standard", "category", "luxury", "combined"}

\* TaxService(tax_mode): the constructor stores the mode as given
NewTaxService(mode) == [tax_mode |-> mode]

\* mutant: in combined mode a tie goes to the luxury result
calculate_tax_tie_luxury(mode, sad, its) ==
    CASE mode = "standard" ->
            IF StandardTax_calculate_tax(sad).amount > 0
            THEN <<StandardTax_calculate_tax(sad)>> ELSE <<>>
      [] mode = "category" -> CategoryTax_calculate_tax(sad, its)
      [] mode = "luxury" ->
            IF LuxuryTax_calculate_tax(sad).amount > 0
            THEN <<LuxuryTax_calculate_tax(sad)>> ELSE <<>>
      [] mode = "combined" ->
            IF LuxuryTax_calculate_tax(sad).amount >= StandardTax_calculate_tax(sad).amount
            THEN <<LuxuryTax_calculate_tax(sad)>>
            ELSE IF StandardTax_calculate_tax(sad).amount > 0
            THEN <<StandardTax_calculate_tax(sad)>>
            ELSE <<>>
      [] OTHER -> <<>>

\* TaxService.calculate_tax
calculate_tax(mode, sad, its) ==
    CASE mode = "standard" ->
            IF StandardTax_calculate_tax(sad).amount > 0
            THEN <<StandardTax_calculate_tax(sad)>> ELSE <<>>
      [] mode = "category" -> CategoryTax_calculate_tax(sad, its)
      [] mode = "luxury" ->
            IF LuxuryTax_calculate_tax(sad).amount > 0
            THEN <<LuxuryTax_calculate_tax(sad)>> ELSE <<>>
      [] mode = "combined" ->
            IF LuxuryTax_calculate_tax(sad).amount > StandardTax_calculate_tax(sad).amount
            THEN <<LuxuryTax_calculate_tax(sad)>>
            ELSE IF StandardTax_calculate_tax(sad).amount > 0
            THEN <<StandardTax_calculate_tax(sad)>>
            ELSE <<>>
      [] OTHER -> <<>>

set_tax_mode(current, mode) ==
    IF mode \notin ValidModes THEN [ret |-> "ValueError", tax_mode |-> current]
    ELSE [ret |-> "None", tax_mode |-> mode]

(***************************************************************************)
(* models/transaction.py                                                   *)
(***************************************************************************)
PENDING == "pending"
COMPLETED == "completed"
CANCELLED == "cancelled"
REFUNDED == "refunded"
TransactionStatus == {PENDING, COMPLETED, CANCELLED, REFUNDED}

\* Optional[datetime] = None
NoTime == -1

\* transaction ids are positive integers; NoId is None or "", BlankId is " "
NoId == 0
BlankId == -1

\* PaymentDetail(...) with its __post_init__ validation
NewPaymentDetail(amount_paid, method, change_amount, installments) ==
    IF amount_paid < 0 \/ change_amount < 0
    THEN [ok |-> FALSE]
    ELSE [ok |-> TRUE,
          payment |-> [amount_paid |-> amount_paid, payment_method |-> method,
                       change_amount |-> change_amount, installments |-> installments]]

\* Transaction._validate_inputs: TRUE iff nothing is raised
validate_inputs(transaction_id, its, subtotal, tax_amount, total_amount) ==
    /\ transaction_id # NoId
    /\ transaction_id # BlankId
    /\ ~is_empty(its)
    /\ subtotal >= 0
    /\ tax_amount >= 0
    /\ total_amount >= 0

\* the one ShoppingCart object of the model; Transaction._cart is a reference
\* to the cart it was given, not a copy of it
TheCart == "cart"

\* transaction.cart: the items of the cart object the reference points to
cart_items(ref, its) == IF ref = TheCart THEN its ELSE <<>>

\* Transaction.__init__ after validation; the caller finalizes the cart
NewTransaction(transaction_id, c, subtotal, discounts, tax_amount, total_amount, payment, now) ==
    [transaction_id |-> transaction_id,
     cart |-> TheCart,
     customer |-> c,
     subtotal |-> subtotal,
     discounts |-> discounts,
     tax_amount |-> tax_amount,
     total_amount |-> total_amount,
     payment |-> payment,
     status |-> PENDING,
     created_at |-> now,
     completed_at |-> NoTime]

get_total_discount(t) == SumSeq(Amounts(t.discounts))

\* mutant: a cancelled transaction can be completed
complete_transaction_reopen(t, now) ==
    IF t.status \in {PENDING, CANCELLED}
    THEN [ret |-> "True", txn |-> [t EXCEPT !.status = COMPLETED, !.completed_at = now]]
    ELSE [ret |-> "False", txn |-> t]

complete_transaction(t, now) ==
    IF t.status = PENDING
    THEN [ret |-> "True", txn |-> [t EXCEPT !.status = COMPLETED, !.completed_at = now]]
    ELSE [ret |-> "False", txn |-> t]

\* mutant: a completed transaction can be cancelled as well
cancel_transaction_completed(t) ==
    IF t.status \in {PENDING, COMPLETED}
    THEN [ret |-> "True", txn |-> [t EXCEPT !.status = CANCELLED]]
    ELSE [ret |-> "False", txn |-> t]

cancel_transaction(t) ==
    IF t.status = PENDING
    THEN [ret |-> "True", txn |-> [t EXCEPT !.status = CANCELLED]]
    ELSE [ret |-> "False", txn |-> t]

\* mutant: a cancelled transaction can be refunded
refund_transaction_from_cancelled(t) ==
    IF t.status \in {COMPLETED, CANCELLED}
    THEN [ret |-> "True", txn |-> [t EXCEPT !.status = REFUNDED]]
    ELSE [ret |-> "False", txn |-> t]

\* mutant: a refund clears the completion timestamp
refund_transaction_clears_timestamp(t) ==
    IF t.status = COMPLETED
    THEN [ret |-> "True", txn |-> [t EXCEPT !.status = REFUNDED, !.completed_at = NoTime]]
    ELSE [ret |-> "False", txn |-> t]

\* mutant: a refund also zeroes the amount
refund_transaction_zeroed(t) ==
    IF t.status = COMPLETED
    THEN [ret |-> "True", txn |-> [t EXCEPT !.status = REFUNDED, !.total_amount = 0]]
    ELSE [ret |-> "False", txn |-> t]

refund_transaction(t) ==
    IF t.status = COMPLETED
    THEN [ret |-> "True", txn |-> [t EXCEPT !.status = REFUNDED]]
    ELSE [ret |-> "False", txn |-> t]

is_paid_in_full(t) == t.payment.amount_paid >= t.total_amount

get_outstanding_amount(t) == Max(0, t.total_amount - t.payment.amount_paid)

\* TransactionBuilder after its setters: a field left unset keeps the
\* constructor's default (None, 0, [])
NewBuilder(transaction_id, cart_set, subtotal, tax_amount, total_amount, payment_set, payment) ==
    [transaction_id |-> transaction_id, cart_set |-> cart_set, subtotal |-> subtotal,
     discounts |-> <<>>, tax_amount |-> tax_amount, total_amount |-> total_amount,
     payment_set |-> payment_set, payment |-> payment]

\* mutant: build() does not require the payment
build_without_payment_check(b, its, c, now) ==
    IF b.transaction_id = NoId THEN [ret |-> "ValueError", txn |-> <<>>, finalized |-> FALSE]
    ELSE IF ~b.cart_set \/ Len(its) = 0
    THEN [ret |-> "ValueError", txn |-> <<>>, finalized |-> FALSE]
    ELSE IF ~validate_inputs(b.transaction_id, its, b.subtotal, b.tax_amount, b.total_amount)
    THEN [ret |-> "ValueError", txn |-> <<>>, finalized |-> FALSE]
    ELSE [ret |-> "Transaction",
          txn |-> <<NewTransaction(b.transaction_id, c, b.subtotal, b.discounts,
                                   b.tax_amount, b.total_amount, b.payment, now)>>,
          finalized |-> TRUE]

\* TransactionBuilder.build on the cart `its` of customer c.  `not self._cart`
\* is true for None and, through ShoppingCart.__len__, for an empty cart.
build(b, its, c, now) ==
    IF b.transaction_id = NoId THEN [ret |-> "ValueError", txn |-> <<>>, finalized |-> FALSE]
    ELSE IF ~b.cart_set \/ Len(its) = 0
    THEN [ret |-> "ValueError", txn |-> <<>>, finalized |-> FALSE]
    ELSE IF ~b.payment_set THEN [ret |-> "ValueError", txn |-> <<>>, finalized |-> FALSE]
    ELSE IF ~validate_inputs(b.transaction_id, its, b.subtotal, b.tax_amount, b.total_amount)
    THEN [ret |-> "ValueError", txn |-> <<>>, finalized |-> FALSE]
    ELSE [ret |-> "Transaction",
          txn |-> <<NewTransaction(b.transaction_id, c, b.subtotal, b.discounts,
                                   b.tax_amount, b.total_amount, b.payment, now)>>,
          finalized |-> TRUE]

(***************************************************************************)
(* services/transaction_service.py                                         *)
(***************************************************************************)
SupportedMethods == {"cash", "card", "digital", "transfer"}

\* mutant: an insufficient payment is invalid
validate_payment_strict(total_amount, payment_amount, method) ==
    IF method \notin SupportedMethods
    THEN [is_valid |-> FALSE, is_sufficient |-> FALSE, change_amount |-> 0,
          outstanding_amount |-> 0, message |-> "unsupported method"]
    ELSE IF payment_amount < 0
    THEN [is_valid |-> FALSE, is_sufficient |-> FALSE, change_amount |-> 0,
          outstanding_amount |-> 0, message |-> "negative amount"]
    ELSE IF payment_amount >= total_amount
    THEN [is_valid |-> TRUE, is_sufficient |-> TRUE,
          change_amount |-> payment_amount - total_amount,
          outstanding_amount |-> 0, message |-> "Pembayaran berhasil"]
    ELSE [is_valid |-> FALSE, is_sufficient |-> FALSE, change_amount |-> 0,
          outstanding_amount |-> total_amount - payment_amount,
          message |-> "Kurang bayar"]

\* PaymentProcessor.validate_payment
validate_payment(total_amount, payment_amount, method) ==
    IF method \notin SupportedMethods
    THEN [is_valid |-> FALSE, is_sufficient |-> FALSE, change_amount |-> 0,
          outstanding_amount |-> 0, message |-> "unsupported method"]
    ELSE IF payment_amount < 0
    THEN [is_valid |-> FALSE, is_sufficient |-> FALSE, change_amount |-> 0,
          outstanding_amount |-> 0, message |-> "negative amount"]
    ELSE IF payment_amount >= total_amount
    THEN [is_valid |-> TRUE, is_sufficient |-> TRUE,
          change_amount |-> payment_amount - total_amount,
          outstanding_amount |-> 0, message |-> "Pembayaran berhasil"]
    ELSE [is_valid |-> TRUE, is_sufficient |-> FALSE, change_amount |-> 0,
          outstanding_amount |-> total_amount - payment_amount,
          message |-> "Kurang bayar"]

\* mutant: an overpaid installment plan gives no change
process_installment_payment_no_change(total_amount, installments) ==
    [total_paid |-> SumSeq(installments),
     is_complete |-> SumSeq(installments) >= total_amount,
     change_amount |-> 0,
     outstanding_amount |-> Max(0, total_amount - SumSeq(installments)),
     installment_count |-> Len(installments)]

\* PaymentProcessor.process_installment_payment
process_installment_payment(total_amount, installments) ==
    [total_paid |-> SumSeq(installments),
     is_complete |-> SumSeq(installments) >= total_amount,
     change_amount |-> Max(0, SumSeq(installments) - total_amount),
     outstanding_amount |-> Max(0, total_amount - SumSeq(installments)),
     installment_count |-> Len(installments)]

\* calculate_transaction_totals: the sums and the dict it returns
totals_dict(subtotal, discounts, taxes) ==
    [subtotal |-> subtotal,
     discounts |-> discounts,
     total_discount |-> SumSeq(Amounts(discounts)),
     subtotal_after_discount |-> subtotal - SumSeq(Amounts(discounts)),
     taxes |-> taxes,
     total_tax |-> SumSeq(Amounts(taxes)),
     total_amount |-> (subtotal - SumSeq(Amounts(discounts))) + SumSeq(Amounts(taxes))]

\* calculate_transaction_totals, steps 3-4: the taxes are computed on
\* subtotal_after_discount = subtotal - total_discount
totals_after_discounts(its, mode, subtotal, discounts) ==
    totals_dict(subtotal, discounts,
                calculate_tax(mode, subtotal - SumSeq(Amounts(discounts)), its))

\* TransactionOrchestrator.calculate_transaction_totals
calculate_transaction_totals(its, c, day, mode) ==
    totals_after_discounts(its, mode, calculate_subtotal(its),
                           calculate_all_discounts(its, c, day))

\* validate_transaction_data, given the payment validation pv
validation_result(its, c, pv) ==
    LET e1 == IF is_empty(its) THEN <<"Keranjang belanja kosong">> ELSE <<>>
        e2 == IF c = NoCustomer THEN <<"Customer tidak valid">> ELSE <<>>
        e3 == IF ~pv.is_valid THEN <<pv.message>> ELSE <<>>
    IN [is_valid |-> (e1 \o e2 \o e3) = <<>>,
        errors |-> e1 \o e2 \o e3,
        warnings |-> IF ~pv.is_sufficient THEN <<pv.message>> ELSE <<>>]

\* TransactionOrchestrator.validate_transaction_data; the payment is
\* validated with validate_payment's default method 'cash'
validate_transaction_data(its, c, day, mode, payment_amount) ==
    validation_result(its, c,
        validate_payment(calculate_transaction_totals(its, c, day, mode).total_amount,
                         payment_amount, "cash"))

\* TransactionService._generate_transaction_id: a fresh id
generate_transaction_id(history) == Len(history) + 1

\* mutant: a single payment records no change
create_payment_no_change(total_amount, payment_amount, payment_method, installments) ==
    IF installments # <<>>
    THEN NewPaymentDetail(process_installment_payment(total_amount, installments).total_paid,
                          payment_method,
                          process_installment_payment(total_amount, installments).change_amount,
                          installments)
    ELSE NewPaymentDetail(payment_amount, payment_method, 0, installments)

\* create_transaction steps 3-4: the PaymentDetail for the total
create_payment(total_amount, payment_amount, payment_method, installments) ==
    IF installments # <<>>
    THEN NewPaymentDetail(process_installment_payment(total_amount, installments).total_paid,
                          payment_method,
                          process_installment_payment(total_amount, installments).change_amount,
                          installments)
    ELSE NewPaymentDetail(payment_amount, payment_method,
                          Max(0, payment_amount - total_amount), installments)

\* create_transaction steps 5-6: the builder is given the id, the cart, the
\* customer, the three amounts and the payment (no discount), then build()
create_builder(its, c, day, history, t, pd) ==
    IF ~pd.ok THEN [ret |-> "ValueError", txn |-> <<>>, finalized |-> FALSE]
    ELSE build(NewBuilder(generate_transaction_id(history), TRUE, t.subtotal,
                          t.total_tax, t.total_amount, TRUE, pd.payment),
               its, c, day)

\* create_transaction steps 2-6, once the validation has passed
create_validated(its, c, day, history, t, payment_amount, payment_method, installments) ==
    create_builder(its, c, day, history, t,
                   create_payment(t.total_amount, payment_amount, payment_method,
                                  installments))

\* mutant: a rejected call finalizes the cart all the same
create_build_finalize_on_reject(its, c, day, mode, history, payment_amount, payment_method, installments) ==
    IF ~validate_transaction_data(its, c, day, mode, payment_amount).is_valid
    THEN [ret |-> "None", txn |-> <<>>, finalized |-> TRUE]
    ELSE create_validated(its, c, day, history,
                          calculate_transaction_totals(its, c, day, mode),
                          payment_amount, payment_method, installments)

\* TransactionService.create_transaction up to and including builder.build():
\* returns what build() returned, or the reason why it was not reached
create_build(its, c, day, mode, history, payment_amount, payment_method, installments) ==
    IF ~validate_transaction_data(its, c, day, mode, payment_amount).is_valid
    THEN [ret |-> "None", txn |-> <<>>, finalized |-> FALSE]
    ELSE create_validated(its, c, day, history,
                          calculate_transaction_totals(its, c, day, mode),
                          payment_amount, payment_method, installments)

\* TransactionService.get_transaction: the stored object or None
get_transaction(txns, history, id) ==
    IF id \in DOMAIN txns THEN <<history[txns[id]]>> ELSE <<>>

\* TransactionService.get_customer_transactions (a customer stands for its name)
get_customer_transactions(history, c) ==
    SelectSeq(history, LAMBDA t : t.customer = c)

\* TransactionService.get_transactions_by_status
get_transactions_by_status(history, status) ==
    SelectSeq(history, LAMBDA t : t.status = status)

\* TransactionService.get_daily_transactions; date None is today
get_daily_transactions(history, date, now) ==
    SelectSeq(history, LAMBDA t : t.created_at = (IF date = NoTime THEN now ELSE date))

\* get_sales_analytics: the transactions inside the range (None: open end)
filter_by_date(history, start_date, end_date) ==
    SelectSeq(history, LAMBDA t : /\ (start_date # NoTime => t.created_at >= start_date)
                                  /\ (end_date # NoTime => t.created_at <= end_date))

\* get_sales_analytics: the summary over the completed transactions
analytics_summary(completed) ==
    [total_revenue |-> SumSeq([i \in 1..Len(completed) |-> completed[i].total_amount]),
     total_transactions |-> Len(completed),
     average_transaction_value |->
         IF Len(completed) > 0
         THEN SumSeq([i \in 1..Len(completed) |-> completed[i].total_amount])
                  \div Len(completed)
         ELSE 0]

\* mutant: refunded transactions still count as sales
get_sales_analytics_with_refunded(history, start_date, end_date) ==
    analytics_summary(SelectSeq(filter_by_date(history, start_date, end_date),
                                LAMBDA t : t.status \in {COMPLETED, REFUNDED}))

\* TransactionService.get_sales_analytics (revenue and count)
get_sales_analytics(history, start_date, end_date) ==
    analytics_summary(SelectSeq(filter_by_date(history, start_date, end_date),
                                LAMBDA t : t.status = COMPLETED))

\* _generate_transaction_id is "TXN_" + the time to the second + the first 8
\* hex digits of a uuid4, and is not compared with the ids already stored:
\* the values two calls can draw, equal or different
DrawnIds == {1, 2}

\* the Transaction built by create_transaction when the id drawn is `id`
with_transaction_id(t, id) == [t EXCEPT !.transaction_id = id]

\* _transactions holds object references: a position of _transaction_history,
\* or in_flight(term) for the object the call running on terminal term has
\* built and not yet appended
in_flight(term) == 0 - term

\* self._transactions[transaction_id] = transaction, by the call of term
store_in_index(txns, id, term) ==
    [k \in (DOMAIN txns) \cup {id} |-> IF k = id THEN in_flight(term) ELSE txns[k]]

\* self._transaction_history.append(transaction): the references to the
\* object become its position in the history
index_after_append(txns, history, term) ==
    [k \in DOMAIN txns |-> IF txns[k] = in_flight(term) THEN Len(history) + 1 ELSE txns[k]]

\* step 7 of create_transaction: the discounts are appended to the built object
append_discounts(t, discounts) == [t EXCEPT !.discounts = @ \o discounts]

(***************************************************************************)
(* Inputs                                                                  *)
(***************************************************************************)
RawNames == {"beras", " Beras ", "sabun", "SABUN", "  "}
Names == {"beras", "sabun"}
Prices == {1, 15000, 500000}
\* what the cart interface is called with: a price of 0 is rejected
PriceInputs == {0, 15000, 500000}
KategoriInputs == {MAKANAN, KEBUTUHAN}
QuantityInputs == -1..MaxQty
ModeInputs == ValidModes \cup {"flat"}
\* Monday, Wednesday, Saturday
DaySamples == {0, 2, 5}

Customers ==
    {NoCustomer, NewCustomer(30, FALSE), NewCustomer(65, FALSE), NewCustomer(30, TRUE),
     NewPremiumCustomer(30, 5000), NewVIPCustomer(65, 20000)}

ProductItems ==
    [nama : Names, harga : Prices, kategori : KategoriBarang, jumlah : 1..MaxQty]

\* the cart contents add_item can produce from these: none, one item, or a
\* beras item followed by a sabun item (pricing never reads the names)
CartContents ==
    {<<>>} \cup {<<a>> : a \in ProductItems}
           \cup {ab \in ProductItems \X ProductItems :
                     ab[1].nama = "beras" /\ ab[2].nama = "sabun"}

\* what the service-level specification feeds to the cart and the payment
ServiceItems ==
    {[raw |-> "SABUN", harga |-> 500000, kategori |-> KEBUTUHAN, jumlah |-> 3]}
ServiceCustomers == {NoCustomer, NewVIPCustomer(65, 20000)}
PaymentInputs ==
    {[amount |-> -1, method |-> "cash", installments |-> <<>>],
     [amount |-> 30000, method |-> "cash", installments |-> <<>>],
     [amount |-> 5000000, method |-> "cash", installments |-> <<>>],
     [amount |-> 0, method |-> "cek", installments |-> <<20000, 20000, 20000>>],
     [amount |-> 0, method |-> "cash", installments |-> <<20000, -30000>>]}
\* payments below, at and above the total of 957,000, at once and by installments
SettlementPayments ==
    {[amount |-> 30000, method |-> "cash", installments |-> <<>>],
     [amount |-> 957000, method |-> "card", installments |-> <<>>],
     [amount |-> 5000000, method |-> "cash", installments |-> <<>>],
     [amount |-> 0, method |-> "digital", installments |-> <<20000, 20000, 20000>>],
     [amount |-> 0, method |-> "transfer", installments |-> <<500000, 500000>>],
     [amount |-> 0, method |-> "cash", installments |-> <<20000, -30000>>]}
LedgerPayments ==
    {[amount |-> 30000, method |-> "cash", installments |-> <<>>],
     [amount |-> 5000000, method |-> "card", installments |-> <<>>]}
LifecyclePayments == {[amount |-> 5000000, method |-> "cash", installments |-> <<>>]}
BuilderIds == {NoId, BlankId, 1}
BuilderAmounts == {"default", "totals", "negative"}
LookupIds == 1..(MaxTxn + 1)
\* no date, the day of the transactions, the day after
DateInputs == {NoTime, 2, 3}
RangeInputs == {<<NoTime, NoTime>>, <<2, 2>>, <<3, NoTime>>, <<NoTime, 1>>}

\* prices at and around the thresholds of the tax strategies, membership
\* points at and around the tier minima
BoundaryPrices ==
    {99999, 100000, 100001, 200000, 499999, 500000, 999999, 1000000, 1999999, 2000000}
TierPoints == {0, 999, 1000, 4999, 5000, 9999, 10000}
RuleCustomers ==
    {NoCustomer, NewCustomer(30, FALSE), NewCustomer(30, TRUE)}
        \cup {NewPremiumCustomer(30, p) : p \in TierPoints}
        \cup {NewVIPCustomer(30, p) : p \in {0, 20000}}
BoundaryCarts == {<<NewProductItem("beras", h, MAKANAN, 1).item>> : h \in BoundaryPrices}

\* the percentage SeniorDiscountStrategy is constructed with: the default 0.10, or 1.5
SeniorPercentages == {10, 150}

\* the days the clock runs through: Wednesday to Friday
Calendar == {2, 3, 4}

\* the terminals (threads) that call create_transaction on the one service
Terminals == {1, 2}

\* what the payment processor is called with
PaymentTotals == {0, 50000, 60000, 957000}
PaymentAmounts == {-1, 0, 49999, 50000, 50001, 60000}
MethodInputs == SupportedMethods \cup {"cek"}
InstallmentInputs ==
    {<<>>, <<20000, 20000, 20000>>, <<20000, 20000>>, <<25000, 25000>>, <<50000>>,
     <<1000000>>}

(***************************************************************************)
(* Operations                                                              *)
(***************************************************************************)
\* arguments are recorded for the service-level calls only
NoArgs == [none |-> TRUE]

Returned(op, ret, args) == [op |-> op, ret |-> ret, args |-> args]

\* no create_transaction call in progress on a terminal
IdleCall == [pc |-> "idle"]

\* a call that returns a value (a dict, a list, a number)
Answered(op, args, value) == [op |-> op, ret |-> "value", args |-> args, value |-> value]

AddItem(raw, harga, kategori, jumlah) ==
    LET pi == NewProductItem(raw, harga, kategori, jumlah)
    IN IF ~pi.ok
       THEN /\ result' = Returned("ProductItem", "ValueError", NoArgs)
            /\ UNCHANGED <<cartVars, tax_mode, today, ledgerVars, totals, calls>>
       ELSE LET r == add_item(items, is_finalized, pi.item)
            IN /\ \A i \in 1..Len(r.items) : r.items[i].jumlah <= MaxQty
               /\ items' = r.items
               /\ result' = Returned("add_item", r.ret, [item |-> pi.item])
               /\ UNCHANGED <<is_finalized, customer, tax_mode, today, ledgerVars, totals, calls>>

AddInvalidItem ==
    LET r == add_item_invalid(items, is_finalized)
    IN /\ items' = r.items
       /\ result' = Returned("add_item", r.ret, NoArgs)
       /\ UNCHANGED <<is_finalized, customer, tax_mode, today, ledgerVars, totals, calls>>

RemoveItem(raw) ==
    LET r == remove_item(items, is_finalized, raw)
    IN /\ items' = r.items
       /\ result' = Returned("remove_item", r.ret, NoArgs)
       /\ UNCHANGED <<is_finalized, customer, tax_mode, today, ledgerVars, totals, calls>>

UpdateQuantity(raw, new_quantity) ==
    LET r == update_quantity(items, is_finalized, raw, new_quantity)
    IN /\ items' = r.items
       /\ result' = Returned("update_quantity", r.ret, NoArgs)
       /\ UNCHANGED <<is_finalized, customer, tax_mode, today, ledgerVars, totals, calls>>

ClearCart ==
    LET r == clear_cart(items, is_finalized)
    IN /\ items' = r.items
       /\ result' = Returned("clear_cart", r.ret, NoArgs)
       /\ UNCHANGED <<is_finalized, customer, tax_mode, today, ledgerVars, totals, calls>>

CalculateSubtotal ==
    /\ result' = Answered("calculate_subtotal", NoArgs, calculate_subtotal(items))
    /\ UNCHANGED <<cartVars, tax_mode, today, ledgerVars, totals, calls>>

GetItemsByCategory ==
    /\ result' = Answered("get_items_by_category", NoArgs, get_items_by_category(items))
    /\ UNCHANGED <<cartVars, tax_mode, today, ledgerVars, totals, calls>>

FinalizeCart ==
    /\ is_finalized' = TRUE
    /\ result' = Returned("finalize_cart", "None", NoArgs)
    /\ UNCHANGED <<items, customer, tax_mode, today, ledgerVars, totals, calls>>

UnfinalizeCart ==
    /\ is_finalized' = FALSE
    /\ result' = Returned("unfinalize_cart", "None", NoArgs)
    /\ UNCHANGED <<items, customer, tax_mode, today, ledgerVars, totals, calls>>

SetTaxMode(mode) ==
    LET r == set_tax_mode(tax_mode, mode)
    IN /\ tax_mode' = r.tax_mode
       /\ result' = Returned("set_tax_mode", r.ret, NoArgs)
       /\ UNCHANGED <<cartVars, today, ledgerVars, totals, calls>>

\* datetime.now() passes midnight
AdvanceClock ==
    /\ today + 1 \in Calendar
    /\ today' = today + 1
    /\ result' = Returned("now", "None", NoArgs)
    /\ UNCHANGED <<cartVars, tax_mode, ledgerVars, totals, calls>>

\* the call of calculate_transaction_totals with its arguments and its result
TotalsCall ==
    [items |-> items, customer |-> customer, day |-> today, mode |-> tax_mode,
     ret |-> calculate_transaction_totals(items, customer, today, tax_mode)]

CalculateTotals ==
    /\ totals' = <<TotalsCall>>
    /\ result' = Returned("calculate_transaction_totals", "dict", NoArgs)
    /\ UNCHANGED <<cartVars, tax_mode, today, ledgerVars, calls>>

CreateTransaction(payment_amount, payment_method, installments) ==
    /\ Len(transaction_history) < MaxTxn
    /\ \E b \in {create_build(items, customer, today, tax_mode, transaction_history,
                              payment_amount, payment_method, installments)},
          tid \in {generate_transaction_id(transaction_history)},
          args \in {[amount |-> payment_amount, method |-> payment_method,
                     installments |-> installments]} :
          /\ is_finalized' = (is_finalized \/ b.finalized)
          /\ IF b.ret = "Transaction"
             THEN
               /\ built' = b.txn
               /\ transaction_history' =
                     Append(transaction_history,
                            append_discounts(b.txn[1], TotalsCall.ret.discounts))
               /\ transactions' =
                     [k \in (DOMAIN transactions) \cup {tid} |->
                         IF k = tid THEN Len(transaction_history) + 1 ELSE transactions[k]]
               /\ result' = Returned("create_transaction", "Transaction", args)
             ELSE
               /\ result' = Returned("create_transaction", "None", args)
               /\ UNCHANGED ledgerVars
    /\ UNCHANGED <<items, customer, tax_mode, today, totals, calls>>

\* DiscountService(strategies).calculate_all_discounts(cart, cart.customer)
\* with the senior strategy built for the given percentage
CalculateAllDiscountsWith(percentage) ==
    /\ \E d \in {calculate_all_discounts_with(percentage, items, customer, today)} :
          result' = IF d.raised
                    THEN Returned("calculate_all_discounts", "ValueError",
                                  [senior_percentage |-> percentage])
                    ELSE Answered("calculate_all_discounts",
                                  [senior_percentage |-> percentage], d.discounts)
    /\ UNCHANGED <<cartVars, tax_mode, today, ledgerVars, totals, calls>>

\* calculate_transaction_totals of an orchestrator holding that DiscountService:
\* step 2 is not guarded, so the strategy's exception leaves the method
CalculateTotalsWith(percentage) ==
    /\ \E d \in {calculate_all_discounts_with(percentage, items, customer, today)} :
          result' = IF d.raised
                    THEN Returned("calculate_transaction_totals", "ValueError",
                                  [senior_percentage |-> percentage])
                    ELSE Answered("calculate_transaction_totals",
                                  [senior_percentage |-> percentage],
                                  totals_after_discounts(items, tax_mode,
                                                         calculate_subtotal(items),
                                                         d.discounts))
    /\ UNCHANGED <<cartVars, tax_mode, today, ledgerVars, totals, calls>>

\* create_transaction of a service holding that DiscountService: the exception
\* of step 1 is caught by the method's except clause, which returns None.
\* When nothing is raised the senior strategy is the default one or does not
\* apply, and the call is the one of the default service.
CreateTransactionWith(percentage, payment_amount, payment_method, installments) ==
    IF calculate_all_discounts_with(percentage, items, customer, today).raised
    THEN /\ Len(transaction_history) < MaxTxn
         /\ result' = Returned("create_transaction", "None",
                               [senior_percentage |-> percentage,
                                amount |-> payment_amount, method |-> payment_method,
                                installments |-> installments])
         /\ UNCHANGED <<cartVars, tax_mode, today, ledgerVars, totals, calls>>
    ELSE CreateTransaction(payment_amount, payment_method, installments)

CallsInProgress == {term \in Terminals : calls[term].pc # "idle"}

\* create_transaction on a terminal, steps 1-7: validation, totals, payment,
\* the id, build() (which finalizes the cart) and the discounts.  No lock is
\* taken; the steps up to here read and write no state of the service.
BeginCreate(term, id, payment_amount, payment_method, installments) ==
    /\ calls[term].pc = "idle"
    /\ Len(transaction_history) + Cardinality(CallsInProgress) < MaxTxn
    /\ \E b \in {create_build(items, customer, today, tax_mode, transaction_history,
                              payment_amount, payment_method, installments)} :
          /\ is_finalized' = (is_finalized \/ b.finalized)
          /\ IF b.ret = "Transaction"
             THEN
               /\ built' = <<with_transaction_id(b.txn[1], id)>>
               /\ calls' = [calls EXCEPT ![term] =
                               [pc |-> "store", transaction_id |-> id,
                                transaction |->
                                    append_discounts(with_transaction_id(b.txn[1], id),
                                                     TotalsCall.ret.discounts)]]
               /\ result' = Returned("build", "Transaction", [terminal |-> term])
             ELSE
               /\ result' = Returned("create_transaction", "None", [terminal |-> term])
               /\ UNCHANGED <<built, calls>>
    /\ UNCHANGED <<items, customer, tax_mode, today, transaction_history, transactions,
                   totals>>

\* step 8, first statement: self._transactions[transaction_id] = transaction
StoreInIndex(term) ==
    /\ calls[term].pc = "store"
    /\ transactions' = store_in_index(transactions, calls[term].transaction_id, term)
    /\ calls' = [calls EXCEPT ![term].pc = "append"]
    /\ result' = Returned("store", "None", [terminal |-> term])
    /\ UNCHANGED <<cartVars, tax_mode, today, transaction_history, built, totals>>

\* step 8, second statement, and the return of the transaction
AppendToHistory(term) ==
    /\ calls[term].pc = "append"
    /\ transaction_history' = Append(transaction_history, calls[term].transaction)
    /\ transactions' = index_after_append(transactions, transaction_history, term)
    /\ calls' = [calls EXCEPT ![term] = IdleCall]
    /\ result' = Returned("create_transaction", "Transaction",
                          [terminal |-> term,
                           transaction_id |-> calls[term].transaction_id])
    /\ UNCHANGED <<cartVars, tax_mode, today, built, totals>>

\* the amounts a stand-alone builder is given: none, those of the totals t,
\* or a negative subtotal
builder_amounts(amounts, t) ==
    [subtotal |-> CASE amounts = "default" -> 0
                    [] amounts = "totals" -> t.subtotal
                    [] amounts = "negative" -> -1,
     tax_amount |-> IF amounts = "totals" THEN t.total_tax ELSE 0,
     total_amount |-> IF amounts = "totals" THEN t.total_amount ELSE 0]

\* a TransactionBuilder used on its own: chosen setters, then build()
BuilderBuild(tid, cart_set, payment_set, amounts) ==
    \E a \in {builder_amounts(amounts,
                  calculate_transaction_totals(items, customer, today, tax_mode))} :
    \E r \in {build(NewBuilder(tid, cart_set, a.subtotal, a.tax_amount, a.total_amount,
                               payment_set, NewPaymentDetail(0, "cash", 0, <<>>).payment),
                    items, customer, today)} :
       /\ built' = r.txn
       /\ is_finalized' = (is_finalized \/ r.finalized)
       /\ result' = Returned("build", r.ret,
                              [transaction_id |-> tid, cart_set |-> cart_set,
                               payment_set |-> payment_set, amounts |-> amounts])
       /\ UNCHANGED <<items, customer, tax_mode, today, transaction_history,
                      transactions, totals, calls>>

\* TransactionService.complete_transaction / cancel_transaction /
\* refund_transaction: look the id up, then call the Transaction's method
ServiceCall(op, id, r) ==
    /\ transaction_history' = [transaction_history EXCEPT ![transactions[id]] = r.txn]
    /\ result' = Returned(op, r.ret, [id |-> id])
    /\ UNCHANGED <<cartVars, tax_mode, today, transactions, built, totals, calls>>

ServiceMiss(op, id) ==
    /\ result' = Returned(op, "False", [id |-> id])
    /\ UNCHANGED <<cartVars, tax_mode, today, ledgerVars, totals, calls>>

CompleteTransaction(id) ==
    IF id \in DOMAIN transactions
    THEN ServiceCall("complete_transaction", id,
                     complete_transaction(transaction_history[transactions[id]], today))
    ELSE ServiceMiss("complete_transaction", id)

CancelTransaction(id) ==
    IF id \in DOMAIN transactions
    THEN ServiceCall("cancel_transaction", id,
                     cancel_transaction(transaction_history[transactions[id]]))
    ELSE ServiceMiss("cancel_transaction", id)

RefundTransaction(id) ==
    IF id \in DOMAIN transactions
    THEN ServiceCall("refund_transaction", id,
                     refund_transaction(transaction_history[transactions[id]]))
    ELSE ServiceMiss("refund_transaction", id)

GetTransaction(id) ==
    /\ result' = Answered("get_transaction", [id |-> id],
                          get_transaction(transactions, transaction_history, id))
    /\ UNCHANGED <<cartVars, tax_mode, today, ledgerVars, totals, calls>>

GetCustomerTransactions(c) ==
    /\ result' = Answered("get_customer_transactions", [customer |-> c],
                          get_customer_transactions(transaction_history, c))
    /\ UNCHANGED <<cartVars, tax_mode, today, ledgerVars, totals, calls>>

GetTransactionsByStatus(status) ==
    /\ result' = Answered("get_transactions_by_status", [status |-> status],
                          get_transactions_by_status(transaction_history, status))
    /\ UNCHANGED <<cartVars, tax_mode, today, ledgerVars, totals, calls>>

GetDailyTransactions(date) ==
    /\ result' = Answered("get_daily_transactions", [date |-> date],
                          get_daily_transactions(transaction_history, date, today))
    /\ UNCHANGED <<cartVars, tax_mode, today, ledgerVars, totals, calls>>

GetSalesAnalytics(start_date, end_date) ==
    /\ result' = Answered("get_sales_analytics",
                          [start_date |-> start_date, end_date |-> end_date],
                          get_sales_analytics(transaction_history, start_date, end_date))
    /\ UNCHANGED <<cartVars, tax_mode, today, ledgerVars, totals, calls>>

ValidatePayment(total_amount, payment_amount, method) ==
    /\ result' = Answered("validate_payment",
                          [total_amount |-> total_amount,
                           payment_amount |-> payment_amount, method |-> method],
                          validate_payment(total_amount, payment_amount, method))
    /\ UNCHANGED <<cartVars, tax_mode, today, ledgerVars, totals, calls>>

ProcessInstallmentPayment(total_amount, installments) ==
    /\ result' = Answered("process_installment_payment",
                          [total_amount |-> total_amount, installments |-> installments],
                          process_installment_payment(total_amount, installments))
    /\ UNCHANGED <<cartVars, tax_mode, today, ledgerVars, totals, calls>>

(***************************************************************************)
(* Specifications                                                          *)
(***************************************************************************)
InitLedger ==
    /\ transaction_history = <<>>
    /\ transactions = <<>>
    /\ built = <<>>
    /\ totals = <<>>
    /\ calls = [term \in Terminals |-> IdleCall]
    /\ result = Returned("init", "None", NoArgs)

\* the transaction service with one cart
Init ==
    /\ items = <<>>
    /\ is_finalized = FALSE
    /\ customer \in ServiceCustomers
    /\ today = 2
    /\ tax_mode = "standard"
    /\ InitLedger

Next ==
    \/ \E it \in ServiceItems : AddItem(it.raw, it.harga, it.kategori, it.jumlah)
    \/ ClearCart
    \/ UnfinalizeCart
    \/ \E p \in PaymentInputs : CreateTransaction(p.amount, p.method, p.installments)
    \/ \E id \in LookupIds : CompleteTransaction(id)
    \/ \E id \in LookupIds : CancelTransaction(id)
    \/ \E id \in LookupIds : RefundTransaction(id)

Spec == Init /\ [][Next]_vars

\* the ledger of the transaction service: creation, the status transitions
\* and the queries
NextLedger ==
    \/ \E it \in ServiceItems : AddItem(it.raw, it.harga, it.kategori, it.jumlah)
    \/ \E p \in LedgerPayments : CreateTransaction(p.amount, p.method, p.installments)
    \/ \E id \in LookupIds : CompleteTransaction(id)
    \/ \E id \in LookupIds : CancelTransaction(id)
    \/ \E id \in LookupIds : RefundTransaction(id)
    \/ \E id \in LookupIds : GetTransaction(id)
    \/ \E c \in ServiceCustomers \ {NoCustomer} : GetCustomerTransactions(c)
    \/ \E status \in TransactionStatus : GetTransactionsByStatus(status)
    \/ \E date \in DateInputs : GetDailyTransactions(date)
    \/ \E range \in RangeInputs : GetSalesAnalytics(range[1], range[2])

SpecLedger == Init /\ [][NextLedger]_vars

\* checkout with every kind of settlement
NextSettlement ==
    \/ \E it \in ServiceItems : AddItem(it.raw, it.harga, it.kategori, it.jumlah)
    \/ ClearCart
    \/ UnfinalizeCart
    \/ \E p \in SettlementPayments : CreateTransaction(p.amount, p.method, p.installments)

SpecSettlement == Init /\ [][NextSettlement]_vars

\* the life of the stored transactions while the clock advances
NextLifecycle ==
    \/ \E it \in ServiceItems : AddItem(it.raw, it.harga, it.kategori, it.jumlah)
    \/ \E p \in LifecyclePayments : CreateTransaction(p.amount, p.method, p.installments)
    \/ \E id \in LookupIds : CompleteTransaction(id)
    \/ \E id \in LookupIds : CancelTransaction(id)
    \/ \E id \in LookupIds : RefundTransaction(id)
    \/ AdvanceClock

SpecLifecycle == Init /\ [][NextLifecycle]_vars

\* building transactions: a TransactionBuilder on its own and inside
\* create_transaction
NextBuilder ==
    \/ \E it \in ServiceItems : AddItem(it.raw, it.harga, it.kategori, it.jumlah)
    \/ ClearCart
    \/ UnfinalizeCart
    \/ \E p \in PaymentInputs : CreateTransaction(p.amount, p.method, p.installments)
    \/ \E tid \in BuilderIds, cs \in BOOLEAN, ps \in BOOLEAN, am \in BuilderAmounts :
          BuilderBuild(tid, cs, ps, am)

SpecBuilder == Init /\ [][NextBuilder]_vars

\* one shopping cart under every call of its interface
InitCart ==
    /\ items = <<>>
    /\ is_finalized = FALSE
    /\ customer = NewCustomer(30, FALSE)
    /\ today = 2
    /\ tax_mode = "standard"
    /\ InitLedger

NextCart ==
    \/ \E raw \in RawNames, h \in PriceInputs, k \in KategoriInputs, q \in QuantityInputs :
          AddItem(raw, h, k, q)
    \/ AddInvalidItem
    \/ \E raw \in RawNames : RemoveItem(raw)
    \/ \E raw \in RawNames, q \in QuantityInputs : UpdateQuantity(raw, q)
    \/ ClearCart
    \/ CalculateSubtotal
    \/ GetItemsByCategory
    \/ FinalizeCart
    \/ UnfinalizeCart

SpecCart == InitCart /\ [][NextCart]_vars

\* the pricing pipeline on every cart content, customer, weekday and tax mode
InitPricing ==
    /\ items \in CartContents
    /\ is_finalized = FALSE
    /\ customer \in Customers
    /\ today \in DaySamples
    /\ tax_mode \in ValidModes
    /\ InitLedger

NextPricing == CalculateTotals

SpecPricing == InitPricing /\ [][NextPricing]_vars

\* a TaxService constructed with any mode, on one-item carts priced at the
\* thresholds, for customers of every segment and tier
InitTax ==
    /\ items \in BoundaryCarts
    /\ is_finalized = FALSE
    /\ customer \in RuleCustomers
    /\ today = 2
    /\ tax_mode \in {NewTaxService(mode).tax_mode : mode \in ModeInputs}
    /\ InitLedger

NextTax ==
    \/ \E mode \in ModeInputs : SetTaxMode(mode)
    \/ CalculateTotals

SpecTax == InitTax /\ [][NextTax]_vars

\* the payment processor on its own
NextPayment ==
    \/ \E t \in PaymentTotals, a \in PaymentAmounts, m \in MethodInputs :
          ValidatePayment(t, a, m)
    \/ \E t \in PaymentTotals, i \in InstallmentInputs : ProcessInstallmentPayment(t, i)

SpecPayment == InitCart /\ [][NextPayment]_vars

\* a discount service whose senior strategy is built with the default or with
\* an out-of-range percentage
InitStrategies ==
    /\ items = <<>>
    /\ is_finalized = FALSE
    /\ customer \in Customers
    /\ today \in DaySamples
    /\ tax_mode = "standard"
    /\ InitLedger

NextStrategies ==
    \/ \E it \in ServiceItems : AddItem(it.raw, it.harga, it.kategori, it.jumlah)
    \/ \E pct \in SeniorPercentages : CalculateAllDiscountsWith(pct)
    \/ \E pct \in SeniorPercentages : CalculateTotalsWith(pct)
    \/ \E pct \in SeniorPercentages, p \in LedgerPayments :
          CreateTransactionWith(pct, p.amount, p.method, p.installments)

SpecStrategies == InitStrategies /\ [][NextStrategies]_vars

\* two terminals creating transactions on the one service, their calls
\* interleaved statement by statement (what the ledger stores does not
\* depend on which cart a call is given; both use the cart of the model)
NextTerminals ==
    \/ \E it \in ServiceItems : AddItem(it.raw, it.harga, it.kategori, it.jumlah)
    \/ \E term \in Terminals, id \in DrawnIds, p \in PaymentInputs :
          BeginCreate(term, id, p.amount, p.method, p.installments)
    \/ \E term \in Terminals : StoreInIndex(term)
    \/ \E term \in Terminals : AppendToHistory(term)

SpecTerminals == Init /\ [][NextTerminals]_vars

(***************************************************************************)
(* Properties                                                              *)
(***************************************************************************)
CartMutators == {"add_item", "remove_item", "update_quantity", "clear_cart"}

\* C1: while the cart is finalized, every call of add_item, remove_item,
\* update_quantity or clear_cart returns False (raises nothing) and leaves
\* the items, their quantities, the subtotal and the flag unchanged.
C1_FinalizedCartRejectsMutation ==
    [][(is_finalized /\ result'.op \in CartMutators) =>
          /\ result'.ret = "False"
          /\ items' = items
          /\ calculate_subtotal(items') = calculate_subtotal(items)
          /\ is_finalized']_vars

\* a mutator has just been refused on a finalized, non-empty cart
C1_Witness ==
    /\ is_finalized
    /\ items # <<>>
    /\ result.op = "update_quantity"
    /\ result.ret = "False"

TransitionOps == {"complete_transaction", "cancel_transaction", "refund_transaction"}

RequiredStatus(op) == IF op = "refund_transaction" THEN COMPLETED ELSE PENDING

TargetStatus(op) ==
    CASE op = "complete_transaction" -> COMPLETED
      [] op = "cancel_transaction" -> CANCELLED
      [] op = "refund_transaction" -> REFUNDED

\* C2: complete_transaction and cancel_transaction succeed exactly from
\* Pending, refund_transaction exactly from Completed; a successful call
\* sets the target status, any other call returns False and leaves the
\* status and the completion timestamp unchanged.
C2_TransitionGuards ==
    [][\A id \in DOMAIN transactions :
          (result'.op \in TransitionOps /\ result'.args.id = id) =>
              LET before == transaction_history[transactions[id]]
                  after == transaction_history'[transactions[id]]
              IN /\ result'.ret \in {"True", "False"}
                 /\ (result'.ret = "True") <=> (before.status = RequiredStatus(result'.op))
                 /\ (result'.ret = "True") => (after.status = TargetStatus(result'.op))
                 /\ (result'.ret = "False") =>
                       /\ after.status = before.status
                       /\ after.completed_at = before.completed_at]_vars

\* cancel_transaction has just been refused on a completed transaction
C2_Witness ==
    /\ result.op = "cancel_transaction"
    /\ result.ret = "False"
    /\ result.args.id \in DOMAIN transactions
    /\ transaction_history[transactions[result.args.id]].status = COMPLETED
    /\ transaction_history[transactions[result.args.id]].completed_at # NoTime

AllowedTransitions ==
    {<<PENDING, COMPLETED>>, <<PENDING, CANCELLED>>, <<COMPLETED, REFUNDED>>}

\* C3: the only status changes are Pending -> Completed, Pending ->
\* Cancelled and Completed -> Refunded; a cancelled transaction stays
\* cancelled (is never completed), and a transaction that was completed
\* stays completed or refunded (is never cancelled).
C3_OnlyAllowedTransitions ==
    [][\A i \in 1..Len(transaction_history) :
          LET old == transaction_history[i].status
              new == transaction_history'[i].status
          IN /\ (new # old) => (<<old, new>> \in AllowedTransitions)
             /\ (old = CANCELLED) => (new = CANCELLED)
             /\ (old \in {COMPLETED, REFUNDED}) => (new \in {COMPLETED, REFUNDED})]_vars

\* one transaction went Pending -> Completed -> Refunded, another one was
\* cancelled, and a later complete_transaction on the cancelled one failed
C3_Witness ==
    /\ \E i \in 1..Len(transaction_history) : transaction_history[i].status = REFUNDED
    /\ result.op = "complete_transaction"
    /\ result.ret = "False"
    /\ result.args.id \in DOMAIN transactions
    /\ transaction_history[transactions[result.args.id]].status = CANCELLED

TotalEquation(t) == t.total_amount = (t.subtotal - get_total_discount(t)) + t.tax_amount

\* C4: every Transaction of create_transaction satisfies total_amount =
\* subtotal - sum of its discounts + tax_amount, both as the builder
\* constructs it (the object build() returns) and in every later state
\* (the stored object).
C4_TotalEquation ==
    /\ \A i \in 1..Len(transaction_history) : TotalEquation(transaction_history[i])
    /\ (result.op = "create_transaction" /\ result.ret = "Transaction") =>
          TotalEquation(built[1])

TaxableAmounts(taxes) == [j \in 1..Len(taxes) |-> taxes[j].taxable_amount]

\* C5: in every tax mode the taxable bases of the emitted tax results sum
\* to the post-discount amount (subtotal minus all discounts): the single
\* result of the other modes is based on it, and the per-category results
\* of category mode split it.
C5_TaxOnPostDiscountAmount ==
    \A i \in 1..Len(totals) :
        totals[i].ret.taxes # <<>> =>
            SumSeq(TaxableAmounts(totals[i].ret.taxes)) =
                totals[i].ret.subtotal_after_discount

\* C6: a build() with the id, the cart or the payment unset raises, returns
\* no Transaction and leaves the cart's finalized flag (and the ledger) as
\* it was; every build() that returns a Transaction, on its own or inside
\* create_transaction, leaves the cart finalized and the new transaction
\* Pending without a completion timestamp.
C6_BuildRequiresFields ==
    [][/\ (result'.op = "build" /\ (\/ result'.args.transaction_id = NoId
                                     \/ ~result'.args.cart_set
                                     \/ ~result'.args.payment_set)) =>
              result'.ret = "ValueError"
       /\ (result'.op = "build" /\ result'.ret = "ValueError") =>
              /\ built' = <<>>
              /\ is_finalized' = is_finalized
              /\ items' = items
              /\ transaction_history' = transaction_history
       /\ (result'.op \in {"build", "create_transaction"} /\ result'.ret = "Transaction") =>
              /\ is_finalized'
              /\ Len(built') = 1
              /\ built'[1].status = PENDING
              /\ built'[1].completed_at = NoTime]_vars

\* a stand-alone build() has just returned a Transaction and finalized the cart
C6_Witness ==
    /\ result.op = "build"
    /\ result.ret = "Transaction"
    /\ is_finalized
    /\ Len(built) = 1
    /\ built[1].status = PENDING

\* the total create_transaction computes for the current cart
CurrentTotal == calculate_transaction_totals(items, customer, today, tax_mode).total_amount

\* C7: for a non-empty cart with a customer and a single non-negative
\* payment below the total, validate_transaction_data is valid with the
\* shortfall as a warning, and create_transaction stores a new Pending
\* transaction with amount_paid = the tendered amount, change 0 and
\* outstanding amount = total - paid.
C7_InsufficientPaymentIsWarning ==
    [][(/\ result'.op = "create_transaction"
        /\ items # <<>>
        /\ customer # NoCustomer
        /\ result'.args.installments = <<>>
        /\ result'.args.method \in SupportedMethods
        /\ result'.args.amount >= 0
        /\ result'.args.amount < CurrentTotal) =>
           /\ validate_transaction_data(items, customer, today, tax_mode,
                                        result'.args.amount).is_valid
           /\ validate_transaction_data(items, customer, today, tax_mode,
                                        result'.args.amount).warnings # <<>>
           /\ result'.ret = "Transaction"
           /\ Len(transaction_history') = Len(transaction_history) + 1
           /\ \E id \in DOMAIN transactions' :
                 /\ id \notin DOMAIN transactions
                 /\ transactions'[id] = Len(transaction_history')
           /\ LET t == transaction_history'[Len(transaction_history')]
              IN /\ t.status = PENDING
                 /\ t.payment.amount_paid = result'.args.amount
                 /\ t.payment.change_amount = 0
                 /\ t.total_amount = CurrentTotal
                 /\ get_outstanding_amount(t) = CurrentTotal - result'.args.amount
                 /\ get_outstanding_amount(t) > 0]_vars

\* create_transaction has just stored a transaction that was paid 30,000
\* of a larger total
C7_Witness ==
    /\ result.op = "create_transaction"
    /\ result.ret = "Transaction"
    /\ result.args.amount = 30000
    /\ transaction_history # <<>>
    /\ transaction_history[Len(transaction_history)].status = PENDING
    /\ transaction_history[Len(transaction_history)].payment.amount_paid = 30000
    /\ get_outstanding_amount(transaction_history[Len(transaction_history)]) > 0

\* C8: the list returned by calculate_all_discounts holds no zero-amount
\* result, the per-category ones included.
C8_NoZeroAmountDiscount ==
    \A i \in 1..Len(totals) :
        \A j \in 1..Len(totals[i].ret.discounts) :
            totals[i].ret.discounts[j].amount > 0

\* the threshold of the category-bulk discount, as the claim states it
BulkThreshold(k) == IF k = KEBUTUHAN THEN 2 ELSE 3

\* quantity and subtotal of category k, counted item by item
QuantityOf(its, k) ==
    SumSeq([i \in 1..Len(its) |-> IF its[i].kategori = k THEN its[i].jumlah ELSE 0])

SubtotalOf(its, k) ==
    SumSeq([i \in 1..Len(its) |->
               IF its[i].kategori = k THEN its[i].harga * its[i].jumlah ELSE 0])

DiscountsNamed(discounts, name) ==
    {j \in 1..Len(discounts) : discounts[j].name = name}

\* C9: the discount list holds exactly one category-bulk result for a
\* category whose total quantity is at least its threshold (food 3, drink
\* 3, household 2), of amount floor(category subtotal * 7%), and none for
\* a category below its threshold.
C9_CategoryBulkThreshold ==
    \A i \in 1..Len(totals) :
        \A k \in KategoriBarang :
            LET found == DiscountsNamed(totals[i].ret.discounts, CategoryDiscountName(k))
            IN IF QuantityOf(totals[i].items, k) >= BulkThreshold(k)
               THEN /\ Cardinality(found) = 1
                    /\ \A j \in found :
                          totals[i].ret.discounts[j].amount =
                              (SubtotalOf(totals[i].items, k) * 7) \div 100
               ELSE found = {}

\* 3 units of a 15,000 food item gave exactly one category discount, 3,150
C9_Witness ==
    /\ Len(totals) = 1
    /\ Len(totals[1].items) = 1
    /\ totals[1].items[1].kategori = MAKANAN
    /\ totals[1].items[1].harga = 15000
    /\ totals[1].items[1].jumlah = 3
    /\ \E j \in 1..Len(totals[1].ret.discounts) :
          /\ totals[1].ret.discounts[j].name = CategoryDiscountName(MAKANAN)
          /\ totals[1].ret.discounts[j].amount = 3150

\* the amounts of the two strategies of combined mode, by their rules:
\* 10% above 100,000; 5%, 8% or 12% from 500,000, 1,000,000 or 2,000,000 on
StandardAmount(sad) == IF sad > 100000 THEN (sad * 10) \div 100 ELSE 0

LuxuryAmount(sad) ==
    IF sad >= 2000000 THEN (sad * 12) \div 100
    ELSE IF sad >= 1000000 THEN (sad * 8) \div 100
    ELSE IF sad >= 500000 THEN (sad * 5) \div 100
    ELSE 0

\* C10: in combined mode calculate_tax returns at most one result: the
\* luxury one if its amount is strictly larger than the standard amount,
\* otherwise the standard one if its amount is positive, and none if both
\* amounts are zero.
C10_CombinedKeepsLarger ==
    \A i \in 1..Len(totals) :
        totals[i].mode = "combined" =>
            LET sad == totals[i].ret.subtotal_after_discount
                taxes == totals[i].ret.taxes
            IN /\ Len(taxes) <= 1
               /\ IF LuxuryAmount(sad) > StandardAmount(sad)
                  THEN /\ Len(taxes) = 1
                       /\ taxes[1].amount = LuxuryAmount(sad)
                       /\ taxes[1].name # "PPN"
                  ELSE IF StandardAmount(sad) > 0
                  THEN /\ Len(taxes) = 1
                       /\ taxes[1].amount = StandardAmount(sad)
                       /\ taxes[1].name = "PPN"
                  ELSE taxes = <<>>

\* combined mode has just kept the luxury result over a positive standard one
C10_Witness ==
    /\ Len(totals) = 1
    /\ totals[1].mode = "combined"
    /\ Len(totals[1].ret.taxes) = 1
    /\ totals[1].ret.taxes[1].name = "Luxury Tier 3"
    /\ StandardAmount(totals[1].ret.subtotal_after_discount) > 0

\* C11: in standard mode one tax result of floor(post-discount amount * 10%)
\* is emitted exactly when the post-discount amount is strictly above
\* 100,000; at 100,000 or below there is no tax result and total_amount is
\* the post-discount amount.
C11_StandardTaxThreshold ==
    \A i \in 1..Len(totals) :
        totals[i].mode = "standard" =>
            LET sad == totals[i].ret.subtotal_after_discount
                taxes == totals[i].ret.taxes
            IN IF sad > 100000
               THEN /\ Len(taxes) = 1
                    /\ taxes[1].amount = (sad * 10) \div 100
                    /\ taxes[1].taxable_amount = sad
                    /\ totals[i].ret.total_amount = sad + ((sad * 10) \div 100)
               ELSE /\ taxes = <<>>
                    /\ totals[i].ret.total_tax = 0
                    /\ totals[i].ret.total_amount = sad

\* standard mode has just charged nothing on exactly 100,000
C11_Witness ==
    /\ Len(totals) = 1
    /\ totals[1].mode = "standard"
    /\ totals[1].ret.subtotal_after_discount = 100000
    /\ totals[1].ret.taxes = <<>>
    /\ totals[1].ret.total_amount = 100000

LuxuryRate(sad) ==
    IF sad >= 2000000 THEN 12 ELSE IF sad >= 1000000 THEN 8 ELSE IF sad >= 500000 THEN 5 ELSE 0

\* C12: in luxury mode the one result applies the rate of the highest
\* bracket whose minimum (500,000 at 5%, 1,000,000 at 8%, 2,000,000 at 12%)
\* is <= the post-discount amount to the whole amount; below 500,000 there
\* is no tax, and an amount equal to a bracket minimum is in that bracket.
C12_LuxuryHighestBracket ==
    \A i \in 1..Len(totals) :
        totals[i].mode = "luxury" =>
            LET sad == totals[i].ret.subtotal_after_discount
                taxes == totals[i].ret.taxes
            IN IF sad >= 500000
               THEN /\ Len(taxes) = 1
                    /\ taxes[1].rate = LuxuryRate(sad)
                    /\ taxes[1].amount = (sad * LuxuryRate(sad)) \div 100
                    /\ taxes[1].taxable_amount = sad
                    /\ totals[i].ret.total_tax = taxes[1].amount
               ELSE /\ taxes = <<>>
                    /\ totals[i].ret.total_tax = 0

\* luxury mode has just taxed exactly 1,000,000 at the second bracket's 8%
C12_Witness ==
    /\ Len(totals) = 1
    /\ totals[1].mode = "luxury"
    /\ totals[1].ret.subtotal_after_discount = 1000000
    /\ Len(totals[1].ret.taxes) = 1
    /\ totals[1].ret.taxes[1].amount = 80000

\* the member rate of a customer as the claim states it, in percent (0: none)
MemberRate(c) ==
    IF c.kind = "None" \/ ~c.is_member THEN 0
    ELSE IF c.kind = "VIPCustomer" THEN 25
    ELSE IF c.kind = "PremiumCustomer"
    THEN IF c.membership_points < 1000 THEN 7
         ELSE IF c.membership_points < 5000 THEN 10
         ELSE IF c.membership_points < 10000 THEN 15
         ELSE 20
    ELSE 5

MemberDiscountNames ==
    {"Diskon Member", "Diskon Member Regular", "Diskon Member Bronze",
     "Diskon Member Silver", "Diskon Member Gold", "Diskon Member Platinum",
     "Diskon Member VIP"}

RawSubtotal(its) == SumSeq([i \in 1..Len(its) |-> its[i].harga * its[i].jumlah])

\* C13: a member gets exactly one member discount, of rate 5% (regular),
\* 7/10/15/20% by points below 1000 / 5000 / 10000 / from 10000 (premium)
\* or 25% (VIP, whatever the points) and amount floor(raw subtotal * rate);
\* a non-member gets none.
C13_MemberRateBySegment ==
    \A i \in 1..Len(totals) :
        LET member == SelectSeq(totals[i].ret.discounts,
                                LAMBDA d : d.name \in MemberDiscountNames)
            rate == MemberRate(totals[i].customer)
        IN IF rate = 0
           THEN member = <<>>
           ELSE /\ Len(member) = 1
                /\ member[1].percentage = rate
                /\ member[1].amount = (RawSubtotal(totals[i].items) * rate) \div 100

\* a VIP customer has just got 25,000 off a subtotal of 100,000
C13_Witness ==
    /\ Len(totals) = 1
    /\ totals[1].customer.kind = "VIPCustomer"
    /\ totals[1].ret.subtotal = 100000
    /\ totals[1].ret.discounts # <<>>
    /\ totals[1].ret.discounts[1].amount = 25000
    /\ totals[1].ret.subtotal_after_discount = 75000

Settled(paid, total, sufficient, change, outstanding) ==
    /\ sufficient <=> (paid >= total)
    /\ change = (IF paid >= total THEN paid - total ELSE 0)
    /\ outstanding = (IF paid < total THEN total - paid ELSE 0)

\* C14: validate_payment with a supported method and a non-negative amount,
\* and process_installment_payment with the sum of the installments as the
\* amount paid, report sufficient/complete iff paid >= total, change =
\* paid - total if paid >= total else 0, outstanding = total - paid if
\* paid < total else 0.
C14_SettlementArithmetic ==
    /\ (/\ result.op = "validate_payment"
        /\ result.args.method \in {"cash", "card", "digital", "transfer"}
        /\ result.args.payment_amount >= 0) =>
           /\ result.value.is_valid
           /\ Settled(result.args.payment_amount, result.args.total_amount,
                      result.value.is_sufficient, result.value.change_amount,
                      result.value.outstanding_amount)
    /\ result.op = "process_installment_payment" =>
           /\ result.value.total_paid = SumSeq(result.args.installments)
           /\ result.value.installment_count = Len(result.args.installments)
           /\ Settled(SumSeq(result.args.installments), result.args.total_amount,
                      result.value.is_complete, result.value.change_amount,
                      result.value.outstanding_amount)

\* installments 20,000 x 3 against 50,000: complete, change 10,000, nothing
\* outstanding
C14_Witness ==
    /\ result.op = "process_installment_payment"
    /\ result.args.installments = <<20000, 20000, 20000>>
    /\ result.args.total_amount = 50000
    /\ result.value.is_complete
    /\ result.value.change_amount = 10000
    /\ result.value.outstanding_amount = 0

\* C15: no transaction in the ledger carries an unsupported payment method
\* or a negative amount paid: create_transaction with such a method or
\* amount creates nothing.
C15_NoUnsupportedPaymentStored ==
    \A i \in 1..Len(transaction_history) :
        /\ transaction_history[i].payment.payment_method \in
               {"cash", "card", "digital", "transfer"}
        /\ transaction_history[i].payment.amount_paid >= 0

\* C16: the tax mode of the service is always one of standard, category,
\* luxury, combined, whatever the constructor and set_tax_mode were given,
\* and no totals were computed under another mode.
C16_TaxModeAlwaysValid ==
    /\ tax_mode \in {"standard", "category", "luxury", "combined"}
    /\ \A i \in 1..Len(totals) :
           totals[i].mode \in {"standard", "category", "luxury", "combined"}

CartReads == {"calculate_subtotal", "get_items_by_category"}

\* C19: calculate_subtotal returns the sum of unit price * quantity over the
\* items in the cart, get_items_by_category returns every item once, under
\* its own category; both leave the items, the quantities and the
\* finalized flag unchanged, and a repeated call returns the same result.
C19_SubtotalAndGroupingArePureReads ==
    [][result'.op \in CartReads =>
          /\ items' = items
          /\ is_finalized' = is_finalized
          /\ result'.op = "calculate_subtotal" =>
                result'.value = RawSubtotal(items)
          /\ result'.op = "get_items_by_category" =>
                /\ \A g \in 1..Len(result'.value) :
                      \A j \in 1..Len(result'.value[g].items) :
                          /\ result'.value[g].items[j].kategori = result'.value[g].kategori
                          /\ \E i \in 1..Len(items) : items[i] = result'.value[g].items[j]
                /\ \A i \in 1..Len(items) :
                      Cardinality({g \in 1..Len(result'.value) :
                                      \E j \in 1..Len(result'.value[g].items) :
                                          result'.value[g].items[j] = items[i]}) = 1
          /\ result.op = result'.op => result'.value = result.value]_vars

\* the subtotal of a cart of two items, one of them in several units, has
\* just been read
C19_Witness ==
    /\ result.op = "calculate_subtotal"
    /\ Len(items) = 2
    /\ \E i \in 1..Len(items) : items[i].jumlah > 1
    /\ result.value = RawSubtotal(items)

\* C20: on a non-finalized cart add_item of a product item returns True and
\* either merges (the entry with the item's key gets the added quantity
\* and keeps its own unit price; every other entry is unchanged) or, for a
\* new key, appends the item with its price and quantity and leaves all
\* existing entries unchanged.
C20_AddItemMergesOrInserts ==
    [][(result'.op = "add_item" /\ ~is_finalized /\ result'.ret # "ValueError") =>
          /\ result'.ret = "True"
          /\ IF \E i \in 1..Len(items) : items[i].nama = result'.args.item.nama
             THEN /\ Len(items') = Len(items)
                  /\ \A i \in 1..Len(items) :
                        IF items[i].nama = result'.args.item.nama
                        THEN /\ items'[i].jumlah = items[i].jumlah + result'.args.item.jumlah
                             /\ items'[i].harga = items[i].harga
                             /\ items'[i].nama = items[i].nama
                        ELSE items'[i] = items[i]
             ELSE /\ Len(items') = Len(items) + 1
                  /\ \A i \in 1..Len(items) : items'[i] = items[i]
                  /\ items'[Len(items')] = result'.args.item]_vars

\* an item with another price has just been merged into an existing entry,
\* which kept its price
C20_Witness ==
    /\ result.op = "add_item"
    /\ result.ret = "True"
    /\ \E i \in 1..Len(items) :
          /\ items[i].nama = result.args.item.nama
          /\ items[i].harga # result.args.item.harga
          /\ items[i].jumlah > result.args.item.jumlah

InRange(t, start_date, end_date) ==
    /\ (start_date = NoTime \/ t.created_at >= start_date)
    /\ (end_date = NoTime \/ t.created_at <= end_date)

\* C17: the revenue and the count that get_sales_analytics returns are those
\* of exactly the transactions in the range whose status is Completed now:
\* pending, cancelled and refunded ones contribute nothing.
C17_AnalyticsCountCompletedOnly ==
    result.op = "get_sales_analytics" =>
        LET counted == {i \in 1..Len(transaction_history) :
                           /\ transaction_history[i].status = COMPLETED
                           /\ InRange(transaction_history[i], result.args.start_date,
                                      result.args.end_date)}
        IN /\ result.value.total_transactions = Cardinality(counted)
           /\ result.value.total_revenue =
                  SumSeq([i \in 1..Len(transaction_history) |->
                             IF i \in counted THEN transaction_history[i].total_amount
                             ELSE 0])

\* the analytics over a completed and a refunded transaction have just
\* counted one sale
C17_Witness ==
    /\ result.op = "get_sales_analytics"
    /\ result.args.start_date = NoTime
    /\ result.args.end_date = NoTime
    /\ \E i, j \in 1..Len(transaction_history) :
          /\ transaction_history[i].status = REFUNDED
          /\ transaction_history[j].status = COMPLETED
          /\ result.value.total_transactions = 1
          /\ result.value.total_revenue = transaction_history[j].total_amount

LedgerQueries ==
    {"get_transaction", "get_customer_transactions", "get_transactions_by_status",
     "get_daily_transactions", "get_sales_analytics"}

C21_EveryStatusButPendingIsFinal ==
    [][\A i \in 1..Len(transaction_history) :
          transaction_history[i].status # PENDING =>
              transaction_history'[i].status = transaction_history[i].status]_vars

\* C21, amended: Cancelled and Refunded are final; a Completed transaction
\* is never changed by complete_transaction or cancel_transaction and
\* leaves Completed only through refund_transaction, to Refunded.
C21_CancelledAndRefundedAreFinal ==
    [][\A i \in 1..Len(transaction_history) :
          LET old == transaction_history[i].status
              new == transaction_history'[i].status
          IN /\ (old \in {CANCELLED, REFUNDED}) => new = old
             /\ (old = COMPLETED /\ new # old) =>
                   /\ new = REFUNDED
                   /\ result'.op = "refund_transaction"
                   /\ result'.ret = "True"]_vars

\* refund_transaction has just been refused on a transaction that is
\* already refunded, while another transaction is cancelled
C21_Witness ==
    /\ result.op = "refund_transaction"
    /\ result.ret = "False"
    /\ result.args.id \in DOMAIN transactions
    /\ transaction_history[transactions[result.args.id]].status = REFUNDED
    /\ \E i \in 1..Len(transaction_history) : transaction_history[i].status = CANCELLED

StrategyOps == {"calculate_all_discounts", "calculate_transaction_totals", "create_transaction"}

\* the senior strategy built with the percentage fails on the current cart
SeniorStrategyFails(percentage) ==
    /\ Senior_is_applicable(customer)
    /\ Senior_calculate_discount_with(percentage, items, customer).raised

\* what the strategies other than the senior one yield on the current cart
RemainingDiscounts ==
    SelectSeq(calculate_all_discounts(items, customer, today),
              LAMBDA d : d.name # "Diskon Lansia")

\* C22: when the senior strategy fails, calculate_all_discounts raises
\* nothing and returns the discounts of the remaining strategies,
\* calculate_transaction_totals still returns its breakdown, and
\* create_transaction on a non-empty cart with a customer and a
\* non-negative payment still returns a transaction.
C22_FailedStrategyYieldsNoDiscount ==
    (/\ result.op \in StrategyOps
     /\ "senior_percentage" \in DOMAIN result.args
     /\ SeniorStrategyFails(result.args.senior_percentage)) =>
        /\ result.ret # "ValueError"
        /\ (result.op = "calculate_all_discounts") => (result.value = RemainingDiscounts)
        /\ (result.op = "create_transaction" /\ ~is_empty(items) /\ result.args.amount >= 0)
              => (result.ret = "Transaction")

\* C23: every line item of the cart has a positive quantity; on a cart that
\* is not finalized update_quantity with a quantity <= 0 raises ValueError
\* and leaves the cart unchanged, whatever the name; ProductItem rejects a
\* quantity <= 0, so add_item is only ever given positive quantities.
C23_QuantitiesArePositive ==
    /\ \A i \in 1..Len(items) : items[i].jumlah \in Nat \ {0}
    /\ ~is_finalized =>
          \A raw \in RawNames, q \in QuantityInputs :
              q <= 0 => update_quantity(items, is_finalized, raw, q)
                            = [ret |-> "ValueError", items |-> items]
    /\ \A raw \in RawNames, h \in PriceInputs, k \in KategoriInputs, q \in QuantityInputs :
          q <= 0 => ~NewProductItem(raw, h, k, q).ok
    /\ (result.op = "add_item" /\ "item" \in DOMAIN result.args) => result.args.item.jumlah > 0

\* update_quantity has just raised on a cart that holds an item and is not
\* finalized
C23_Witness ==
    /\ result.op = "update_quantity"
    /\ result.ret = "ValueError"
    /\ ~is_finalized
    /\ items # <<>>

\* C24: no two transactions of the ledger were built from the same cart
\* (a cart is finalized once, by the one transaction built from it).
C24_OneTransactionPerCart ==
    \A i, j \in 1..Len(transaction_history) :
        i # j => transaction_history[i].cart # transaction_history[j].cart

\* C25: for every transaction of the ledger, in every state, the recorded
\* subtotal equals the subtotal of the cart the transaction holds, whatever
\* was done to the original cart since (unfinalize_cart included).
C25_SubtotalMatchesHeldCart ==
    \A i \in 1..Len(transaction_history) :
        transaction_history[i].subtotal =
            calculate_subtotal(cart_items(transaction_history[i].cart, items))

\* C26: with create_transaction calls interleaved, the stored transactions
\* have pairwise distinct ids and every transaction a call has returned is
\* in the history and is the one the index holds under its id (none is
\* lost or overwritten).
C26_LedgerAppendIsAtomic ==
    /\ \A i, j \in 1..Len(transaction_history) :
          i # j => transaction_history[i].transaction_id
                       # transaction_history[j].transaction_id
    /\ \A i \in 1..Len(transaction_history) :
          /\ transaction_history[i].transaction_id \in DOMAIN transactions
          /\ transactions[transaction_history[i].transaction_id] = i

\* C27: a create_transaction call that returns no transaction raises
\* nothing (it returns None) and leaves the id index, the history, the
\* items of the cart and its finalized flag as they were; a call on an
\* empty cart or on a cart without a customer is such a call.
C27_FailedCreateChangesNothing ==
    [][(result'.op = "create_transaction") =>
          /\ (is_empty(items) \/ customer = NoCustomer) => (result'.ret = "None")
          /\ (result'.ret # "Transaction") =>
                /\ result'.ret = "None"
                /\ transactions' = transactions
                /\ transaction_history' = transaction_history
                /\ items' = items
                /\ customer' = customer
                /\ is_finalized' = is_finalized]_vars

\* create_transaction has just failed on a cart that holds an item and is
\* still open
C27_Witness ==
    /\ result.op = "create_transaction"
    /\ result.ret = "None"
    /\ items # <<>>
    /\ ~is_finalized

\* C28: in every breakdown of calculate_transaction_totals with the default
\* strategies, 0 <= total_discount <= subtotal, and so
\* subtotal_after_discount >= 0 and total_amount >= 0.
C28_DiscountsNeverExceedSubtotal ==
    \A i \in 1..Len(totals) :
        /\ totals[i].ret.total_discount >= 0
        /\ totals[i].ret.total_discount <= totals[i].ret.subtotal
        /\ totals[i].ret.subtotal_after_discount >= 0
        /\ totals[i].ret.total_amount >= 0

\* the worst case: a senior VIP on a Saturday with a category discount
C28_Witness ==
    /\ totals # <<>>
    /\ totals[1].day = 5
    /\ Len(totals[1].ret.discounts) = 4
    /\ Senior_is_applicable(totals[1].customer)
    /\ totals[1].customer.kind = "VIPCustomer"
    /\ totals[1].ret.total_discount > 0

\* C29: every stored transaction, paid at once or by installments, records
\* change_amount = max(0, amount_paid - total_amount) and has outstanding
\* amount max(0, total_amount - amount_paid); the two are never both
\* positive, and is_paid_in_full holds exactly when nothing is outstanding.
C29_ChangeAndOutstanding ==
    \A i \in 1..Len(transaction_history) :
        LET t == transaction_history[i]
        IN /\ t.payment.change_amount = Max(0, t.payment.amount_paid - t.total_amount)
           /\ get_outstanding_amount(t) = Max(0, t.total_amount - t.payment.amount_paid)
           /\ ~(t.payment.change_amount > 0 /\ get_outstanding_amount(t) > 0)
           /\ is_paid_in_full(t) <=> (get_outstanding_amount(t) = 0)

\* the ledger holds a transaction overpaid by installments and one paid
\* short by installments
C29_Witness ==
    /\ \E i \in 1..Len(transaction_history) :
          /\ transaction_history[i].payment.installments # <<>>
          /\ transaction_history[i].payment.change_amount > 0
    /\ \E i \in 1..Len(transaction_history) :
          /\ transaction_history[i].payment.installments # <<>>
          /\ get_outstanding_amount(transaction_history[i]) > 0

\* C30: a stored transaction has a completion timestamp exactly when its
\* status is Completed or Refunded; the timestamp is set, to the time of the
\* call, by the successful complete_transaction and is never changed or
\* cleared afterwards.
C30_CompletionTimestamp ==
    [][/\ \A i \in 1..Len(transaction_history') :
             (transaction_history'[i].completed_at # NoTime)
                 <=> (transaction_history'[i].status \in {COMPLETED, REFUNDED})
       /\ \A i \in 1..Len(transaction_history) :
             LET old == transaction_history[i]
                 new == transaction_history'[i]
             IN /\ (old.completed_at # NoTime) => (new.completed_at = old.completed_at)
                /\ (old.completed_at = NoTime /\ new.completed_at # NoTime) =>
                      /\ result'.op = "complete_transaction"
                      /\ result'.ret = "True"
                      /\ old.status = PENDING
                      /\ new.completed_at = today]_vars

\* a transaction completed on an earlier day has been refunded and keeps
\* its timestamp, another one is cancelled and has none
C30_Witness ==
    /\ \E i \in 1..Len(transaction_history) :
          /\ transaction_history[i].status = REFUNDED
          /\ transaction_history[i].completed_at # NoTime
          /\ transaction_history[i].completed_at < today
          /\ transaction_history[i].created_at < transaction_history[i].completed_at
    /\ \E i \in 1..Len(transaction_history) :
          /\ transaction_history[i].status = CANCELLED
          /\ transaction_history[i].completed_at = NoTime

====
